---- MODULE Spec2Model ----
(***************************************************************************)
(* A model of OISB::System (source/oisb/OISBSystem.cpp): the device        *)
(* lifecycle (initialize / finalize / process), the action schema          *)
(* registry and the hierarchical name lookup.                              *)
(*                                                                         *)
(* Strings are sequences of one-character strings, so that find("/") and   *)
(* substr are computed the way std::string computes them.  Pointers are    *)
(* records tagged with the kind of the object they point to; the null      *)
(* pointer is the record Null.                                             *)
(***************************************************************************)
EXTENDS Integers, Sequences, FiniteSets, TLC

\* ------------------------------------------------------------------ bounds

\* Largest number of devices of one kind an InputManager reports.
MaxDeviceCount == 2
\* Number of InputManagers the application creates over a run.
MaxManagers == 2
\* Number of ActionSchema objects allocated over a run.
MaxSchemaObjects == 3
\* Largest number of Bindings the application gives an action.
MaxBindings == 1
\* Largest number of inputs the application binds in one Binding.
MaxBinds == 2

\* ----------------------------------------------------------------- strings

\* The characters that occur in the model's names, in ASCII order.
Alphabet ==
    << "/", "0", "1", "2", "3", "A", "D", "J", "K", "M", "N", "a", "b", "c", "d",
       "e", "f", "i", "k", "l", "o", "r", "s", "t", "u", "x", "y" >>

CharCode(c) == CHOOSE i \in 1..Len(Alphabet) : Alphabet[i] = c

\* std::string::operator< : lexicographic comparison, the order of std::map.
RECURSIVE StringLess(_, _)
StringLess(a, b) ==
    IF b = << >> THEN FALSE
    ELSE IF a = << >> THEN TRUE
    ELSE IF Head(a) = Head(b) THEN StringLess(Tail(a), Tail(b))
    ELSE CharCode(Head(a)) < CharCode(Head(b))

\* The keys of a std::map in iteration order (ascending).
RECURSIVE SortedKeys(_)
SortedKeys(keys) ==
    IF keys = {} THEN << >>
    ELSE LET least == CHOOSE k \in keys : \A o \in keys \ {k} : StringLess(k, o)
         IN  << least >> \o SortedKeys(keys \ {least})

\* String::size_type is unsigned; its arithmetic wraps at SizeTypeModulus.
\* (The width is scaled down from 64 bits; every string of the model is far
\* shorter.)
SizeTypeModulus == 65536
npos == SizeTypeModulus - 1

\* name.find("/"): the 0-based index of the first "/", npos when there is none.
find(name) ==
    IF \E k \in 1..Len(name) : name[k] = "/"
    THEN (CHOOSE k \in 1..Len(name) :
              name[k] = "/" /\ \A j \in 1..(k - 1) : name[j] # "/") - 1
    ELSE npos

Min(a, b) == IF a < b THEN a ELSE b

\* name.substr(pos, n): the characters [pos, min(pos + n, size)).  pos > size
\* throws std::out_of_range, reported as the value OutOfRange.
OutOfRange == << "std::out_of_range" >>
substr(name, pos, n) ==
    IF pos > Len(name) THEN OutOfRange
    ELSE SubSeq(name, pos + 1, Min(pos + n, Len(name)))

\* The prefix lookupState / lookupAction take as the owner's name.
Prefix(name) == substr(name, 0, find(name))
\* The remainder they take as the member's name: name.substr(i + 1), where
\* i + 1 is computed in size_type.
Remainder(name) == substr(name, (find(name) + 1) % SizeTypeModulus, npos)

Slash == << "/" >>
Path(owner, member) == owner \o Slash \o member

KeyboardName == << "K", "e", "y", "b", "o", "a", "r", "d" >>
MouseName == << "M", "o", "u", "s", "e" >>
JoystickPrefix == << "J", "o", "y", "s", "t", "i", "c", "k" >>
Digit(i) == << Alphabet[i + 2] >>
DefaultName == << "D", "e", "f", "a", "u", "l", "t" >>

\* ---------------------------------------------------------------- pointers

Null == [kind |-> "Null"]
SchemaPtr(id) == [kind |-> "ActionSchema", id |-> id]
ActionPtr(schema, name) == [kind |-> "Action", schema |-> schema, name |-> name]
StatePtr(device, name) == [kind |-> "State", device |-> device, name |-> name]

\* A function with the pair k :> v added, and with the key k removed.
Insert(f, k, v) == [x \in DOMAIN f \cup {k} |-> IF x = k THEN v ELSE f[x]]
Erase(f, k) == [x \in DOMAIN f \ {k} |-> f[x]]
EmptyMap == [x \in {} |-> Null]

\* ------------------------------------------------------------------- state

VARIABLES
    mInitialized,          \* System::mInitialized
    mOIS,                  \* System::mOIS, the InputManager or Null
    mOISMouse,             \* backend mouse or Null
    mOISKeyboard,          \* backend keyboard or Null
    mOISJoysticks,         \* std::vector of backend joysticks
    mMouse,                \* Device wrapper or Null
    mKeyboard,             \* Device wrapper or Null
    mJoysticks,            \* std::vector of Device wrappers
    mDevices,              \* DeviceMap: name -> Device
    mActionSchemas,        \* ActionSchemaMap: name -> ActionSchema*
    mDefaultActionSchema,  \* ActionSchema* or Null
    heap,                  \* the live ActionSchema objects: id -> object
    nextId,                \* ActionSchema objects allocated so far
    oisObjects,            \* the backend's live input objects
    oisSerial,             \* InputManagers the application has created
    crashed,               \* the process died on a null dereference
    destructed,            \* System::~System has run
    file,                  \* the document saveActionSchemaToXMLFile wrote
    call,                  \* the last call: operation, arguments, outcome
    trace                  \* the external calls the last call made, in order

vars ==
    << mInitialized, mOIS, mOISMouse, mOISKeyboard, mOISJoysticks, mMouse,
       mKeyboard, mJoysticks, mDevices, mActionSchemas, mDefaultActionSchema,
       heap, nextId, oisObjects, oisSerial, crashed, destructed, file, call,
       trace >>

deviceVars ==
    << mInitialized, mOIS, mOISMouse, mOISKeyboard, mOISJoysticks, mMouse,
       mKeyboard, mJoysticks, mDevices, oisObjects, oisSerial >>

schemaVars == << mActionSchemas, mDefaultActionSchema, heap, nextId >>

NoArg == [kind |-> "none"]
\* No file under the name the application saves to and loads from.
NoFile == [kind |-> "no file"]
\* A file holding the document `doc`.
File(doc) == [kind |-> "file", doc |-> doc]
\* The System exists and its process runs: its methods can be called.
Alive == ~crashed /\ ~destructed /\ call.op # "~System"
Call(op, arg, raised, ret) == [op |-> op, arg |-> arg, raised |-> raised, ret |-> ret]

\* System::System()
Init ==
    /\ mInitialized = FALSE
    /\ mOIS = Null
    /\ mOISMouse = Null
    /\ mOISKeyboard = Null
    /\ mOISJoysticks = << >>
    /\ mMouse = Null
    /\ mKeyboard = Null
    /\ mJoysticks = << >>
    /\ mDevices = EmptyMap
    /\ mActionSchemas = EmptyMap
    /\ mDefaultActionSchema = Null
    /\ heap = EmptyMap
    /\ nextId = 0
    /\ oisObjects = {}
    /\ oisSerial = 0
    /\ crashed = FALSE
    /\ destructed = FALSE
    /\ file = NoFile
    /\ call = Call("System", NoArg, "none", Null)
    /\ trace = << >>

\* --------------------------------------------------------- schema registry

\* The part of the System the schema operations read and write.
SchemaState ==
    [ mActionSchemas |-> mActionSchemas,
      mDefaultActionSchema |-> mDefaultActionSchema,
      heap |-> heap,
      nextId |-> nextId ]

\* The calls a handler makes that the claims observe, in the order made.
Event(ev, obj) == [ev |-> ev, obj |-> obj]

\* The outcome of an operation: the exception it raised ("none" when it
\* returned), the value it returned, the state it left and the calls it made.
Outcome(raised, ret, st, log) == [raised |-> raised, ret |-> ret, st |-> st, log |-> log]

Store(st) ==
    /\ mActionSchemas' = st.mActionSchemas
    /\ mDefaultActionSchema' = st.mDefaultActionSchema
    /\ heap' = st.heap
    /\ nextId' = st.nextId

\* new ActionSchema(name)
NewActionSchema(name) == [mName |-> name, mActions |-> EmptyMap]

hasActionSchema(st, name) == name \in DOMAIN st.mActionSchemas

setDefaultActionSchema(st, schema) == [st EXCEPT !.mDefaultActionSchema = schema]

getActionSchema(st, name) ==
    IF name \notin DOMAIN st.mActionSchemas
    THEN Outcome("E_General", Null, st, << >>)
    ELSE Outcome("none", st.mActionSchemas[name], st, << >>)

\* createActionSchema without the duplicate check: the registered entry is
\* overwritten.
createActionSchema_NoDuplicateCheck(st, name, setAsDefault) ==
    LET ret == SchemaPtr(st.nextId + 1)
        made == [st EXCEPT
                   !.heap = Insert(st.heap, ret.id, NewActionSchema(name)),
                   !.nextId = st.nextId + 1,
                   !.mActionSchemas = Insert(st.mActionSchemas, name, ret)]
    IN  IF setAsDefault
        THEN Outcome("none", ret, setDefaultActionSchema(made, ret),
                     << Event("new ActionSchema", ret),
                        Event("setDefaultActionSchema", ret) >>)
        ELSE Outcome("none", ret, made, << Event("new ActionSchema", ret) >>)

createActionSchema(st, name, setAsDefault) ==
    IF name \in DOMAIN st.mActionSchemas
    THEN Outcome("E_Duplicate", Null, st, << >>)
    ELSE LET ret == SchemaPtr(st.nextId + 1)
             made == [st EXCEPT
                        !.heap = Insert(st.heap, ret.id, NewActionSchema(name)),
                        !.nextId = st.nextId + 1,
                        !.mActionSchemas = Insert(st.mActionSchemas, name, ret)]
         IN  IF setAsDefault
             THEN Outcome("none", ret, setDefaultActionSchema(made, ret),
                          << Event("new ActionSchema", ret),
                             Event("setDefaultActionSchema", ret) >>)
             ELSE Outcome("none", ret, made, << Event("new ActionSchema", ret) >>)

\* destroyActionSchema without the test for the default schema.
destroyActionSchema_KeepsDefault(st, name) ==
    IF name \notin DOMAIN st.mActionSchemas
    THEN Outcome("E_General", Null, st, << >>)
    ELSE LET schema == st.mActionSchemas[name]
             erased == [st EXCEPT !.mActionSchemas = Erase(st.mActionSchemas, name)]
         IN  Outcome("none", Null,
                     [erased EXCEPT !.heap = Erase(erased.heap, schema.id)],
                     << Event("delete ActionSchema", schema) >>)

destroyActionSchema(st, name) ==
    IF name \notin DOMAIN st.mActionSchemas
    THEN Outcome("E_General", Null, st, << >>)
    ELSE LET schema == st.mActionSchemas[name]
             erased == [st EXCEPT !.mActionSchemas = Erase(st.mActionSchemas, name)]
             isDefault == schema = erased.mDefaultActionSchema
             cleared == IF isDefault THEN setDefaultActionSchema(erased, Null)
                        ELSE erased
         IN  Outcome("none", Null,
                     [cleared EXCEPT !.heap = Erase(cleared.heap, schema.id)],
                     (IF isDefault THEN << Event("setDefaultActionSchema", Null) >>
                      ELSE << >>) \o << Event("delete ActionSchema", schema) >>)

setDefaultActionSchemaByName(st, name) ==
    LET got == getActionSchema(st, name)
    IN  IF got.raised # "none" THEN got
        ELSE Outcome("none", Null, setDefaultActionSchema(st, got.ret),
                     << Event("setDefaultActionSchema", got.ret) >>)

getDefaultActionSchemaAutoCreate(st) ==
    IF st.mDefaultActionSchema = Null
    THEN LET made == createActionSchema(st, DefaultName, TRUE)
         IN  IF made.raised # "none" THEN made
             ELSE Outcome("none", made.st.mDefaultActionSchema, made.st, made.log)
    ELSE Outcome("none", st.mDefaultActionSchema, st, << >>)

\* The names the application gives its schemas.
SchemaNames == { DefaultName, << "A" >>, KeyboardName }

\* Whether an operation that allocates at most one ActionSchema may run.
CanAllocate == nextId < MaxSchemaObjects

CreateActionSchema(name, setAsDefault) ==
    /\ Alive
    /\ hasActionSchema(SchemaState, name) \/ CanAllocate
    /\ LET out == createActionSchema(SchemaState, name, setAsDefault)
       IN  /\ Store(out.st)
           /\ call' = Call("createActionSchema",
                           [name |-> name, setAsDefault |-> setAsDefault],
                           out.raised, out.ret)
           /\ trace' = out.log
    /\ UNCHANGED << deviceVars, crashed, destructed, file >>

DestroyActionSchema(name) ==
    /\ Alive
    /\ LET out == destroyActionSchema(SchemaState, name)
       IN  /\ Store(out.st)
           /\ call' = Call("destroyActionSchema", [name |-> name], out.raised, out.ret)
           /\ trace' = out.log
    /\ UNCHANGED << deviceVars, crashed, destructed, file >>

SetDefaultActionSchema(name) ==
    /\ Alive
    /\ LET out == setDefaultActionSchemaByName(SchemaState, name)
       IN  /\ Store(out.st)
           /\ call' = Call("setDefaultActionSchema", [name |-> name], out.raised, out.ret)
           /\ trace' = out.log
    /\ UNCHANGED << deviceVars, crashed, destructed, file >>

GetDefaultActionSchemaAutoCreate ==
    /\ Alive
    /\ mDefaultActionSchema # Null \/ hasActionSchema(SchemaState, DefaultName) \/ CanAllocate
    /\ LET out == getDefaultActionSchemaAutoCreate(SchemaState)
       IN  /\ Store(out.st)
           /\ call' = Call("getDefaultActionSchemaAutoCreate", NoArg, out.raised, out.ret)
           /\ trace' = out.log
    /\ UNCHANGED << deviceVars, crashed, destructed, file >>

SchemaNext ==
    \/ \E name \in SchemaNames, setAsDefault \in BOOLEAN :
           CreateActionSchema(name, setAsDefault)
    \/ \E name \in SchemaNames : DestroyActionSchema(name)
    \/ \E name \in SchemaNames : SetDefaultActionSchema(name)
    \/ GetDefaultActionSchemaAutoCreate

SpecSchema == Init /\ [][SchemaNext]_vars

\* -------------------------------------------------------- device lifecycle

\* An OIS::InputManager the application created, with the number of devices
\* of each type it reports (getNumberOfDevices).
Manager(id, nKeyboard, nMouse, nJoyStick) ==
    [ kind |-> "InputManager", id |-> id, nKeyboard |-> nKeyboard,
      nMouse |-> nMouse, nJoyStick |-> nJoyStick ]

NumberOfDevices(ois, type) ==
    CASE type = "OISKeyboard" -> ois.nKeyboard
      [] type = "OISMouse" -> ois.nMouse
      [] type = "OISJoyStick" -> ois.nJoyStick

\* An input object of the backend: the n-th of its type its manager made.
OISObject(ois, type, n) == [kind |-> "OISObject", type |-> type, mgr |-> ois.id, n |-> n]

\* The name a Device wrapper registers under: "Keyboard", "Mouse",
\* "Joystick0", "Joystick1", ...
DeviceName(obj) ==
    CASE obj.type = "OISKeyboard" -> KeyboardName
      [] obj.type = "OISMouse" -> MouseName
      [] obj.type = "OISJoyStick" -> JoystickPrefix \o Digit(obj.n)

\* new Keyboard(obj), new Mouse(obj), new JoyStick(obj)
NewDevice(obj) == [kind |-> "Device", mName |-> DeviceName(obj), ois |-> obj]

\* The part of the System, and of its backend, the lifecycle reads and writes.
DeviceState ==
    [ mInitialized |-> mInitialized, mOIS |-> mOIS, mOISMouse |-> mOISMouse,
      mOISKeyboard |-> mOISKeyboard, mOISJoysticks |-> mOISJoysticks,
      mMouse |-> mMouse, mKeyboard |-> mKeyboard, mJoysticks |-> mJoysticks,
      mDevices |-> mDevices, oisObjects |-> oisObjects ]

StoreDevices(d) ==
    /\ mInitialized' = d.mInitialized
    /\ mOIS' = d.mOIS
    /\ mOISMouse' = d.mOISMouse
    /\ mOISKeyboard' = d.mOISKeyboard
    /\ mOISJoysticks' = d.mOISJoysticks
    /\ mMouse' = d.mMouse
    /\ mKeyboard' = d.mKeyboard
    /\ mJoysticks' = d.mJoysticks
    /\ mDevices' = d.mDevices
    /\ oisObjects' = d.oisObjects

\* A step followed by the step `next`, which was run on the state the first
\* left (out.st): an exception of the first step skips the second; the calls
\* made are concatenated.
Then(out, next) ==
    IF out.raised # "none" THEN out
    ELSE Outcome(next.raised, next.ret, next.st, out.log \o next.log)

addDevice(d, device) ==
    IF device.mName \in DOMAIN d.mDevices
    THEN Outcome("E_Duplicate", Null, d, << >>)
    ELSE Outcome("none", Null,
                 [d EXCEPT !.mDevices = Insert(d.mDevices, device.mName, device)],
                 << >>)

removeDevice(d, device) ==
    IF device.mName \notin DOMAIN d.mDevices
    THEN Outcome("E_General", Null, d, << >>)
    ELSE Outcome("none", Null,
                 [d EXCEPT !.mDevices = Erase(d.mDevices, device.mName)], << >>)

\* mOIS->createInputObject(type, true): the next free device of the type.
createInputObject(d, type) ==
    LET made == { o \in d.oisObjects : o.type = type /\ o.mgr = d.mOIS.id }
        obj == OISObject(d.mOIS, type, Cardinality(made))
    IN  Outcome("none", obj, [d EXCEPT !.oisObjects = d.oisObjects \cup {obj}],
                << Event("createInputObject", obj) >>)

\* mOIS->destroyInputObject(obj)
destroyInputObject(d, obj) ==
    Outcome("none", Null, [d EXCEPT !.oisObjects = d.oisObjects \ {obj}],
            << Event("destroyInputObject", obj) >>)

initKeyboard(d) ==
    IF NumberOfDevices(d.mOIS, "OISKeyboard") > 0
    THEN LET made == createInputObject(d, "OISKeyboard")
             device == NewDevice(made.ret)
         IN  Then(made, addDevice([made.st EXCEPT !.mOISKeyboard = made.ret,
                                                  !.mKeyboard = device], device))
    ELSE Outcome("none", Null, d, << >>)

initMouse(d) ==
    IF NumberOfDevices(d.mOIS, "OISMouse") > 0
    THEN LET made == createInputObject(d, "OISMouse")
             device == NewDevice(made.ret)
         IN  Then(made, addDevice([made.st EXCEPT !.mOISMouse = made.ret,
                                                  !.mMouse = device], device))
    ELSE Outcome("none", Null, d, << >>)

\* The body of the joystick loop for index i (1-based here) and the rest of
\* the loop.
RECURSIVE initJoysticks(_, _, _)
initJoysticks(d, i, num_joy) ==
    IF i > num_joy THEN Outcome("none", Null, d, << >>)
    ELSE LET made == createInputObject(d, "OISJoyStick")
             device == NewDevice(made.ret)
             added == Then(made,
                           addDevice([made.st EXCEPT !.mOISJoysticks[i] = made.ret,
                                                     !.mJoysticks[i] = device], device))
         IN  Then(added, initJoysticks(added.st, i + 1, num_joy))

initAllJoysticks(d) ==
    LET num_joy == NumberOfDevices(d.mOIS, "OISJoyStick")
    IN  IF num_joy > 0
        THEN initJoysticks([d EXCEPT !.mOISJoysticks = [k \in 1..num_joy |-> Null],
                                     !.mJoysticks = [k \in 1..num_joy |-> Null]],
                           1, num_joy)
        ELSE Outcome("none", Null, d, << >>)

setInitialized(d) == Outcome("none", Null, [d EXCEPT !.mInitialized = TRUE], << >>)

\* The statements of initialize after the test of mInitialized.
initializeBody(d, ois) ==
    LET keyboard == initKeyboard([d EXCEPT !.mOIS = ois])
        mouse == Then(keyboard, initMouse(keyboard.st))
        joysticks == Then(mouse, initAllJoysticks(mouse.st))
    IN  Then(joysticks, setInitialized(joysticks.st))

\* initialize without the test of mInitialized.
initialize_Unguarded(d, ois) ==
    IF ois = Null THEN Outcome("SIGSEGV", Null, d, << >>)
    ELSE initializeBody(d, ois)

\* System::initialize for a non-null manager.
initialize(d, ois) ==
    IF d.mInitialized THEN Outcome("none", Null, d, << >>)
    ELSE initializeBody(d, ois)

finMouse(d) ==
    IF d.mOISMouse # Null
    THEN LET removed == removeDevice(d, d.mMouse)
             destroyed == Then(removed,
                               destroyInputObject([removed.st EXCEPT !.mMouse = Null],
                                                  removed.st.mOISMouse))
         IN  Then(destroyed,
                  Outcome("none", Null, [destroyed.st EXCEPT !.mOISMouse = Null], << >>))
    ELSE Outcome("none", Null, d, << >>)

finKeyboard(d) ==
    IF d.mOISKeyboard # Null
    THEN LET removed == removeDevice(d, d.mKeyboard)
             destroyed == Then(removed,
                               destroyInputObject([removed.st EXCEPT !.mKeyboard = Null],
                                                  removed.st.mOISKeyboard))
         IN  Then(destroyed,
                  Outcome("none", Null, [destroyed.st EXCEPT !.mOISKeyboard = Null], << >>))
    ELSE Outcome("none", Null, d, << >>)

RECURSIVE finJoysticks(_, _)
finJoysticks(d, i) ==
    IF i > Len(d.mOISJoysticks) THEN Outcome("none", Null, d, << >>)
    ELSE LET removed == removeDevice(d, d.mJoysticks[i])
             destroyed == Then(removed,
                               destroyInputObject(removed.st, removed.st.mOISJoysticks[i]))
         IN  Then(destroyed, finJoysticks(destroyed.st, i + 1))

finAllJoysticks(d) == finJoysticks(d, 1)

finRelease(d) ==
    Outcome("none", Null,
            [d EXCEPT !.mJoysticks = << >>, !.mOISJoysticks = << >>,
                      !.mOIS = Null, !.mInitialized = FALSE],
            << Event("destroyInputSystem", d.mOIS) >>)

\* finalize without the loop that removes the joysticks.
finalize_KeepsJoysticks(d) ==
    IF ~d.mInitialized THEN Outcome("none", Null, d, << >>)
    ELSE LET mouse == finMouse(d)
             keyboard == Then(mouse, finKeyboard(mouse.st))
         IN  Then(keyboard, finRelease(keyboard.st))

finalize(d) ==
    IF ~d.mInitialized THEN Outcome("none", Null, d, << >>)
    ELSE LET mouse == finMouse(d)
             keyboard == Then(mouse, finKeyboard(mouse.st))
             joysticks == Then(keyboard, finAllJoysticks(keyboard.st))
         IN  Then(joysticks, finRelease(joysticks.st))

\* The managers the application may pass to initialize: the one in use, a
\* manager made for this call, or none.
Counts == 0..MaxDeviceCount
FreshManagers ==
    IF oisSerial < MaxManagers
    THEN { Manager(oisSerial + 1, k, m, j) : k \in Counts, m \in Counts, j \in Counts }
    ELSE {}

\* initialize on a System that is already initialized.
InitializeAgain(ois) ==
    /\ Alive
    /\ mInitialized
    /\ LET out == initialize(DeviceState, ois)
       IN  /\ StoreDevices(out.st)
           /\ call' = Call("initialize", [ois |-> ois], out.raised, out.ret)
           /\ trace' = out.log
    /\ UNCHANGED << schemaVars, oisSerial, crashed, destructed, file >>

\* initialize(0) on a System that is not initialized: mOIS->... dereferences
\* the null pointer.
InitializeNull ==
    /\ Alive
    /\ ~mInitialized
    /\ crashed' = TRUE
    /\ call' = Call("initialize", [ois |-> Null], "SIGSEGV", Null)
    /\ trace' = << >>
    /\ UNCHANGED << deviceVars, schemaVars, destructed, file >>

Initialize(ois) ==
    /\ Alive
    /\ ~mInitialized
    /\ ois \in FreshManagers
    /\ LET out == initialize(DeviceState, ois)
       IN  /\ StoreDevices(out.st)
           /\ call' = Call("initialize", [ois |-> ois], out.raised, out.ret)
           /\ trace' = out.log
    /\ oisSerial' = ois.id
    /\ UNCHANGED << schemaVars, crashed, destructed, file >>

Finalize ==
    /\ Alive
    /\ LET out == finalize(DeviceState)
       IN  /\ StoreDevices(out.st)
           /\ call' = Call("finalize", NoArg, out.raised, out.ret)
           /\ trace' = out.log
    /\ UNCHANGED << schemaVars, oisSerial, crashed, destructed, file >>

\* ------------------------------------------------------------ frame driver

\* handle->capture() for each handle of the sequence, in order.  A call
\* through a null handle is undefined behaviour: the process dies there
\* (onNull = "crash") or the call has no effect (onNull = "continue").
RECURSIVE captureAll(_, _)
captureAll(handles, onNull) ==
    IF handles = << >> THEN [raised |-> "none", log |-> << >>]
    ELSE IF Head(handles) = Null /\ onNull = "crash"
    THEN [raised |-> "SIGSEGV", log |-> << Event("capture", Null) >>]
    ELSE LET rest == captureAll(Tail(handles), onNull)
         IN  [raised |-> rest.raised,
              log |-> << Event("capture", Head(handles)) >> \o rest.log]

\* it->second->process(delta) over a std::map, in the order of its keys.
processAll(ev, map) ==
    LET keys == SortedKeys(DOMAIN map)
    IN  [k \in 1..Len(keys) |-> Event(ev, map[keys[k]])]

\* process without the test of mInitialized.
process_Unguarded(d, st, onNull) ==
    LET captured ==
            captureAll(<< d.mOISMouse, d.mOISKeyboard >> \o d.mOISJoysticks, onNull)
    IN  IF captured.raised # "none" THEN captured
        ELSE [raised |-> "none",
              log |-> captured.log
                      \o processAll("Device::process", d.mDevices)
                      \o processAll("ActionSchema::process", st.mActionSchemas)]

\* System::process for an initialized System: the outcome and the calls made.
process(d, st, onNull) ==
    IF ~d.mInitialized THEN [raised |-> "none", log |-> << >>]
    ELSE LET captured ==
                 captureAll(<< d.mOISMouse, d.mOISKeyboard >> \o d.mOISJoysticks, onNull)
         IN  IF captured.raised # "none" THEN captured
             ELSE [raised |-> "none",
                   log |-> captured.log
                           \o processAll("Device::process", d.mDevices)
                           \o processAll("ActionSchema::process", st.mActionSchemas)]

UndefinedOutcomes == { "crash", "continue" }

Process(onNull) ==
    /\ Alive
    /\ LET out == process(DeviceState, SchemaState, onNull)
       IN  /\ call' = Call("process", NoArg, out.raised, Null)
           /\ trace' = out.log
           /\ crashed' = (out.raised = "SIGSEGV")
    /\ UNCHANGED << deviceVars, schemaVars, destructed, file >>

\* -------------------------------------------------- actions of a schema

ActionTypes == { "AnalogAxis", "Trigger", "Sequence" }

\* new T(schema, name)
NewAction(name, type) ==
    [mName |-> name, type |-> type, mProperties |-> << >>, mBindings |-> << >>]

hasAction(schema, name) == name \in DOMAIN schema.mActions

\* ActionSchema::createAction<T>(name) on the schema object at `id`.
createAction(st, id, name, type) ==
    IF hasAction(st.heap[id], name)
    THEN Outcome("E_Duplicate", Null, st, << >>)
    ELSE Outcome("none", ActionPtr(id, name),
                 [st EXCEPT !.heap[id].mActions =
                                Insert(st.heap[id].mActions, name, NewAction(name, type))],
                 << >>)

\* The names the application gives its actions.
ActionNames == { << "A" >>, << "A", "/", "b" >> }

\* getActionSchema(schemaName)->createAction<type>(name)
CreateAction(schemaName, name, type) ==
    /\ Alive
    /\ hasActionSchema(SchemaState, schemaName)
    /\ LET out == createAction(SchemaState, mActionSchemas[schemaName].id, name, type)
       IN  /\ Store(out.st)
           /\ call' = Call("createAction",
                           [schema |-> schemaName, name |-> name, type |-> type],
                           out.raised, out.ret)
           /\ trace' = out.log
    /\ UNCHANGED << deviceVars, crashed, destructed, file >>

\* --------------------------------------------------------- name resolution

\* The outcome of a const method: the exception raised and the value returned.
Result(raised, ret) == [raised |-> raised, ret |-> ret]

\* The names of the States a Device owns.  They come from the backend (key
\* names, axis and button names): a keyboard here reports a key "A", a key
\* "/", a key "A/b" and a key named like the device itself; a mouse and a
\* joystick report a button "A".
StateNames(device) ==
    IF device.ois.type = "OISKeyboard"
    THEN { << "A" >>, << "/" >>, << "A", "/", "b" >>, KeyboardName }
    ELSE { << "A" >> }

hasState(device, name) == name \in StateNames(device)

getState(device, name) ==
    IF ~hasState(device, name) THEN Result("E_General", Null)
    ELSE Result("none", StatePtr(device, name))

hasDevice(devices, name) == name \in DOMAIN devices

getDevice(devices, name) ==
    IF name \notin DOMAIN devices THEN Result("E_General", Null)
    ELSE Result("none", devices[name])

\* lookupState splitting the path on its last "/" (rfind).
lookupState_SplitsOnLastSlash(devices, name) ==
    LET slashes == { k \in 1..Len(name) : name[k] = "/" }
        last == IF slashes = {} THEN npos
                ELSE (CHOOSE k \in slashes : \A j \in slashes : j <= k) - 1
        deviceName == substr(name, 0, last)
    IN  IF hasDevice(devices, deviceName)
        THEN LET dev == getDevice(devices, deviceName)
                 stateName == substr(name, (last + 1) % SizeTypeModulus, npos)
             IN  IF hasState(dev.ret, stateName) THEN getState(dev.ret, stateName)
                 ELSE Result("none", Null)
        ELSE Result("none", Null)

lookupState(devices, name) ==
    LET deviceName == Prefix(name)
    IN  IF hasDevice(devices, deviceName)
        THEN LET dev == getDevice(devices, deviceName)
                 stateName == Remainder(name)
             IN  IF dev.raised # "none" THEN dev
                 ELSE IF stateName = OutOfRange THEN Result("std::out_of_range", Null)
                 ELSE IF hasState(dev.ret, stateName) THEN getState(dev.ret, stateName)
                 ELSE Result("none", Null)
        ELSE Result("none", Null)

getAction(st, id, name) ==
    IF ~hasAction(st.heap[id], name) THEN Result("E_General", Null)
    ELSE Result("none", ActionPtr(id, name))

lookupAction(st, name, throwOnMissing) ==
    LET schemaName == Prefix(name)
    IN  IF hasActionSchema(st, schemaName)
        THEN LET schema == getActionSchema(st, schemaName)
                 actionName == Remainder(name)
             IN  IF schema.raised # "none" THEN Result(schema.raised, Null)
                 ELSE IF actionName = OutOfRange THEN Result("std::out_of_range", Null)
                 ELSE IF hasAction(st.heap[schema.ret.id], actionName)
                 THEN getAction(st, schema.ret.id, actionName)
                 ELSE IF throwOnMissing THEN Result("E_General", Null)
                 ELSE Result("none", Null)
        ELSE IF throwOnMissing THEN Result("E_General", Null)
        ELSE Result("none", Null)

\* lookupBindable trying lookupAction before lookupState.
lookupBindable_ActionFirst(devices, st, name) ==
    LET action == lookupAction(st, name, FALSE)
    IN  IF action.ret # Null THEN action
        ELSE lookupState(devices, name)

lookupBindable(devices, st, name) ==
    LET state == lookupState(devices, name)
    IN  IF state.raised # "none" THEN state
        ELSE IF state.ret # Null THEN state
        ELSE LET action == lookupAction(st, name, FALSE)
             IN  IF action.raised # "none" THEN action
                 ELSE IF action.ret # Null THEN action
                 ELSE Result("none", Null)

\* The paths the application looks up: names without a "/", an owner and a
\* member joined by "/", and paths with an empty side.
Owners == { KeyboardName, << "A" >> }
Members == { << "A" >>, << "/" >>, << "A", "/", "b" >>, KeyboardName, << >> }
Paths ==
    Owners \cup { Path(o, m) : o \in Owners, m \in Members }
           \cup { << >>, Slash, Slash \o << "A" >> }

LookupState(name) ==
    /\ Alive
    /\ LET out == lookupState(mDevices, name)
       IN  call' = Call("lookupState", [name |-> name], out.raised, out.ret)
    /\ trace' = << >>
    /\ UNCHANGED << deviceVars, schemaVars, crashed, destructed, file >>

LookupAction(name, throwOnMissing) ==
    /\ Alive
    /\ LET out == lookupAction(SchemaState, name, throwOnMissing)
       IN  call' = Call("lookupAction",
                        [name |-> name, throwOnMissing |-> throwOnMissing],
                        out.raised, out.ret)
    /\ trace' = << >>
    /\ UNCHANGED << deviceVars, schemaVars, crashed, destructed, file >>

LookupBindable(name) ==
    /\ Alive
    /\ LET out == lookupBindable(mDevices, SchemaState, name)
       IN  call' = Call("lookupBindable", [name |-> name], out.raised, out.ret)
    /\ trace' = << >>
    /\ UNCHANGED << deviceVars, schemaVars, crashed, destructed, file >>

\* ------------------------------------------------------------- documents

\* A document as rapidxml holds it: a sequence of top-level nodes; a node
\* has a tag, attributes in document order, a text value and child nodes in
\* document order.  Tags and attribute names are TLA+ strings; attribute
\* values and text are sequences of characters.
Attr(name, value) == [name |-> name, value |-> value]
Node(tag, attrs, value, children) ==
    [tag |-> tag, attrs |-> attrs, value |-> value, children |-> children]

Least(S) == CHOOSE k \in S : \A j \in S : k <= j

\* node->first_attribute(name): the attribute, or null.
first_attribute(node, name) ==
    LET at == { k \in DOMAIN node.attrs : node.attrs[k].name = name }
    IN  IF at = {} THEN Null ELSE node.attrs[Least(at)]

\* first_node(tag) among `children`: its position, 0 for null.
first_node(children, tag) ==
    LET at == { k \in DOMAIN children : children[k].tag = tag }
    IN  IF at = {} THEN 0 ELSE Least(at)

\* The nodes visited by
\*   for (child = first_node(tag); child; child = child->next_sibling())
\* next_sibling() is called without a name: every node after the first one
\* tagged `tag` is visited, whatever its tag.
Siblings(children, tag) ==
    IF first_node(children, tag) = 0 THEN << >>
    ELSE SubSeq(children, first_node(children, tag), Len(children))

\* The declaration node save puts before the root.
Declaration ==
    Node("xml declaration",
         << Attr("version", << "1", ".", "0" >>),
            Attr("encoding", << "u", "t", "f", "-", "8" >>) >>,
         << >>, << >>)

\* The value of the `type` attribute for each class of Action.
TypeName(type) ==
    CASE type = "AnalogAxis" -> << "A", "n", "a", "l", "o", "g", "A", "x", "i", "s" >>
      [] type = "Trigger" -> << "T", "r", "i", "g", "g", "e", "r" >>
      [] type = "Sequence" -> << "S", "e", "q", "u", "e", "n", "c", "e" >>

NoneName == << "N", "o", "n", "e" >>

\* ------------------------------------------- actions, bindings, bindables

\* (Bindable*)1: a slot that is reserved and not bound.
Placeholder == [kind |-> "Placeholder"]

\* An element of Binding::mBindables.
Pair(first, second) == [first |-> first, second |-> second]

\* new Binding()
NewBinding == [mOptional |-> FALSE, mBindables |-> << >>]

\* The Action object an Action* points to, and the state with it replaced.
actionObject(st, action) == st.heap[action.schema].mActions[action.name]
withAction(st, action, obj) ==
    [st EXCEPT !.heap[action.schema].mActions[action.name] = obj]

\* Action::setProperty(name, value): the property table keeps the order in
\* which its keys were first set.
setProperty(st, action, name, value) ==
    LET obj == actionObject(st, action)
        at == { k \in DOMAIN obj.mProperties : obj.mProperties[k].name = name }
    IN  withAction(st, action,
            [obj EXCEPT !.mProperties =
                IF at = {} THEN Append(obj.mProperties, Attr(name, value))
                ELSE [obj.mProperties EXCEPT ![Least(at)] = Attr(name, value)]])

\* The properties every Action has besides the ones set on it.
BuiltinProperties ==
    << "BindableType", "BindableName", "Active", "Changed",
       "ParentActionSchemaName", "ActionName" >>

\* The properties of the emulator of an AnalogAxisAction.
EmulatorProperties == << Attr("Speed", << "1" >>) >>

\* Action::listProperties(list, true, false): the names, built-in ones first.
listProperties(obj) ==
    BuiltinProperties \o [k \in DOMAIN obj.mProperties |-> obj.mProperties[k].name]

\* Action::getProperty<String>(name) for a property that was set on it.
getProperty(obj, name) ==
    LET at == { k \in DOMAIN obj.mProperties : obj.mProperties[k].name = name }
    IN  IF at = {} THEN << >> ELSE obj.mProperties[Least(at)].value

\* Action::createBinding(): a new Binding at the end of mBindings.
createBinding(st, action) ==
    LET obj == actionObject(st, action)
    IN  Outcome("none", Len(obj.mBindings) + 1,
                withAction(st, action,
                    [obj EXCEPT !.mBindings = Append(obj.mBindings, NewBinding)]),
                << Event("createBinding", action) >>)

\* Binding::bind(name, role), and Binding::bind(name) with the empty role:
\* the name is resolved now when it can be; a name that resolves to nothing
\* is kept in a pair without a Bindable; the name "None" reserves a slot.
Binding_bind(devices, st, action, binding, name, role) ==
    LET obj == actionObject(st, action)
        found == lookupBindable(devices, st, name)
        pair == IF name = NoneName THEN Pair(role, Placeholder)
                ELSE IF found.raised = "none" /\ found.ret # Null
                THEN Pair(role, found.ret)
                ELSE Pair(name, Null)
    IN  Outcome("none", Null,
                withAction(st, action,
                    [obj EXCEPT !.mBindings[binding].mBindables =
                                    Append(obj.mBindings[binding].mBindables, pair)]),
                << Event("Binding::bind", [action |-> action, binding |-> binding,
                                           name |-> name, role |-> role]) >>)

\* Action::bind(name): binds on the last Binding, creating one when the
\* Action has none.
Action_bind(devices, st, action, name) ==
    LET obj == actionObject(st, action)
        made == IF obj.mBindings = << >> THEN createBinding(st, action)
                ELSE Outcome("none", Len(obj.mBindings), st, << >>)
        bound == Binding_bind(devices, made.st, action, made.ret, name, << >>)
    IN  Outcome("none", Null, bound.st, made.log \o bound.log)

\* Bindable::getBindableName(): the path the Bindable is looked up by.
getBindableName(st, bindable) ==
    CASE bindable.kind = "State" -> Path(bindable.device.mName, bindable.name)
      [] bindable.kind = "Action" -> Path(st.heap[bindable.schema].mName, bindable.name)

\* ------------------------------------------------------------------ load

\* processActionBindXML(bindNode, binding, action); `binding` is the position
\* of the Binding in the Action's mBindings, 0 for NULL.
processActionBindXML(devices, st, bindNode, binding, action) ==
    IF action = Null THEN Outcome("none", 1, st, << >>)
    ELSE LET role == IF first_attribute(bindNode, "role") # Null
                     THEN first_attribute(bindNode, "role").value
                     ELSE << >>
             bound == IF binding # 0
                      THEN Binding_bind(devices, st, action, binding,
                                        bindNode.value, role)
                      ELSE Action_bind(devices, st, action, bindNode.value)
         IN  Outcome("none", 0, bound.st, bound.log)

\* The element of a set of one element.  An outcome that several later
\* steps use is bound as the element of its singleton, so that it is
\* computed once.
The(S) == CHOOSE x \in S : TRUE

\* for (child = ...) processActionBindXML(child, binding, action);
RECURSIVE processBinds(_, _, _, _, _)
processBinds(devices, st, nodes, binding, action) ==
    IF nodes = << >> THEN Outcome("none", 0, st, << >>)
    ELSE The({ The({ Outcome("none", 0, rest.st, one.log \o rest.log) :
                     rest \in { processBinds(devices, one.st, Tail(nodes),
                                             binding, action) } }) :
               one \in { processActionBindXML(devices, st, Head(nodes),
                                              binding, action) } })

processActionBindingXML(devices, st, bindingNode, action) ==
    IF action = Null THEN Outcome("none", 1, st, << >>)
    ELSE LET made == createBinding(st, action)
             obj == actionObject(made.st, action)
             flagged == withAction(made.st, action,
                            [obj EXCEPT !.mBindings[made.ret].mOptional =
                                 first_attribute(bindingNode, "optional") # Null])
         IN  The({ Outcome("none", 0, binds.st, made.log \o binds.log) :
                   binds \in { processBinds(devices, flagged,
                                            Siblings(bindingNode.children, "bind"),
                                            made.ret, action) } })

\* for (child = first_node("binding"); ...) processActionBindingXML(child, tmpAction);
RECURSIVE processBindings(_, _, _, _)
processBindings(devices, st, nodes, action) ==
    IF nodes = << >> THEN Outcome("none", 0, st, << >>)
    ELSE The({ The({ Outcome("none", 0, rest.st, one.log \o rest.log) :
                     rest \in { processBindings(devices, one.st, Tail(nodes),
                                                action) } }) :
               one \in { processActionBindingXML(devices, st, Head(nodes),
                                                 action) } })

\* ActionClass taking every unknown value of `type` for a Trigger.
ActionClass_UnknownIsTrigger(type) ==
    IF \E t \in ActionTypes : TypeName(t) = type
    THEN CHOOSE t \in ActionTypes : TypeName(t) = type
    ELSE "Trigger"

\* The class createAction is instantiated with for a value of `type`;
\* "none" for a value that names no class.
ActionClass(type) ==
    IF \E t \in ActionTypes : TypeName(t) = type
    THEN CHOOSE t \in ActionTypes : TypeName(t) = type
    ELSE "none"

\* The loop of processActionXML over the attributes of the action node.
\* The outcome returns tmpAction.
RECURSIVE processAttributes(_, _, _, _, _, _)
processAttributes(st, schema, attrs, type, name, tmpAction) ==
    IF attrs = << >> THEN Outcome("none", tmpAction, st, << >>)
    ELSE LET attr == Head(attrs)
             type1 == IF attr.name = "type" THEN attr.value ELSE type
             name1 == IF attr.name # "type" /\ attr.name = "name"
                      THEN attr.value ELSE name
             isProperty == attr.name # "type" /\ attr.name # "name"
             set == IF isProperty /\ tmpAction # Null
                    THEN Outcome("none", Null,
                                 setProperty(st, tmpAction, attr.name, attr.value),
                                 << Event("setProperty", attr) >>)
                    ELSE Outcome("none", Null, st, << >>)
             create == /\ type1 # << >>
                       /\ name1 # << >>
                       /\ tmpAction = Null
                       /\ ActionClass(type1) # "none"
         IN  The({ IF made.raised # "none"
                   THEN Outcome(made.raised, Null, made.st, set.log)
                   ELSE The({ Outcome(rest.raised, rest.ret, rest.st,
                                      set.log
                                      \o (IF create
                                          THEN << Event("createAction", made.ret) >>
                                          ELSE << >>)
                                      \o rest.log) :
                              rest \in { processAttributes(made.st, schema,
                                             Tail(attrs), type1, name1,
                                             made.ret) } }) :
                   made \in { IF create
                              THEN createAction(set.st, schema.id, name1,
                                                ActionClass(type1))
                              ELSE Outcome("none", tmpAction, set.st, << >>) } })

processActionXML(devices, st, actionNode, schema) ==
    The({ IF attributes.raised # "none" THEN attributes
          ELSE The({ The({ Outcome("none", 0, binds.st,
                                   attributes.log \o bindings.log \o binds.log) :
                           binds \in { processBinds(devices, bindings.st,
                                           Siblings(actionNode.children, "bind"),
                                           0, attributes.ret) } }) :
                     bindings \in { processBindings(devices, attributes.st,
                                        Siblings(actionNode.children, "binding"),
                                        attributes.ret) } }) :
          attributes \in { processAttributes(st, schema, actionNode.attrs,
                                             << >>, << >>, Null) } })

\* for (child = first_node("action"); ...) processActionXML(child, schema);
RECURSIVE processActions(_, _, _, _)
processActions(devices, st, nodes, schema) ==
    IF nodes = << >> THEN Outcome("none", 0, st, << >>)
    ELSE The({ IF one.raised # "none" THEN one
               ELSE The({ Outcome(rest.raised, 0, rest.st, one.log \o rest.log) :
                          rest \in { processActions(devices, one.st, Tail(nodes),
                                                    schema) } }) :
               one \in { processActionXML(devices, st, Head(nodes), schema) } })

processSchemaXML(devices, st, schemaNode) ==
    IF first_attribute(schemaNode, "name") = Null THEN Outcome("none", 2, st, << >>)
    ELSE LET schema_name == first_attribute(schemaNode, "name").value
             schema == IF ~hasActionSchema(st, schema_name)
                       THEN createActionSchema(st, schema_name, FALSE)
                       ELSE getActionSchema(st, schema_name)
         IN  IF schema.raised # "none" THEN schema
             ELSE The({ Outcome(actions.raised, 0, actions.st,
                                schema.log \o actions.log) :
                        actions \in { processActions(devices, schema.st,
                                          Siblings(schemaNode.children, "action"),
                                          schema.ret) } })

\* for (child = first_node("schema"); ...) processSchemaXML(child);
\* the value processSchemaXML returns is not looked at.
RECURSIVE processSchemas(_, _, _)
processSchemas(devices, st, nodes) ==
    IF nodes = << >> THEN Outcome("none", 0, st, << >>)
    ELSE The({ IF one.raised # "none" THEN one
               ELSE The({ Outcome(rest.raised, 0, rest.st, one.log \o rest.log) :
                          rest \in { processSchemas(devices, one.st, Tail(nodes)) } }) :
               one \in { processSchemaXML(devices, st, Head(nodes)) } })

\* loadActionSchemaFromXML walking the children of the first top-level node,
\* whatever its tag.
loadActionSchemaFromXML_AnyRoot(devices, st, doc) ==
    IF doc = << >> THEN Outcome("none", 0, st, << >>)
    ELSE The({ Outcome(schemas.raised, 0, schemas.st, schemas.log) :
               schemas \in { processSchemas(devices, st,
                                 Siblings(doc[1].children, "schema")) } })

loadActionSchemaFromXML(devices, st, doc) ==
    IF first_node(doc, "schemas") = 0 THEN Outcome("none", 0, st, << >>)
    ELSE The({ Outcome(schemas.raised, 0, schemas.st, schemas.log) :
               schemas \in { processSchemas(devices, st,
                                 Siblings(doc[first_node(doc, "schemas")].children,
                                          "schema")) } })

\* loadActionSchemaFromXMLFile(filename), `content` being what the file
\* system holds under filename.
loadActionSchemaFromXMLFile(devices, st, content) ==
    IF content = NoFile THEN Outcome("none", 1, st, << >>)
    ELSE loadActionSchemaFromXML(devices, st, content.doc)

\* ------------------------------------------------------------------ save

\* The properties save leaves out of an action node.
ExcludedProperties ==
    { "AbsoluteValue", "RelativeValue", "ParentActionSchemaName", "ActionName",
      "BindableType", "Active", "BindableName", "Changed", "Speed" }

\* The properties of the emulator save leaves out.
ExcludedEmulatorProperties ==
    { "BindableType", "Active", "BindableName", "Changed", "Speed" }

\* saveBind taking every pair for one without a Bindable.
saveBind_EveryPairIsDummy(st, pair) ==
    Node("bind", << >>, pair.first, << >>)

\* The bind node of one pair of mBindables.
saveBind(st, pair) ==
    IF pair.second # Null
    THEN Node("bind", << Attr("role", pair.first) >>,
              IF pair.second = Placeholder THEN NoneName
              ELSE getBindableName(st, pair.second),
              << >>)
    ELSE Node("bind", << >>, pair.first, << >>)

\* The binding node of one Binding.
saveBinding(st, binding) ==
    Node("binding",
         IF binding.mOptional THEN << Attr("optional", << "1" >>) >> ELSE << >>,
         << >>,
         [k \in DOMAIN binding.mBindables |-> saveBind(st, binding.mBindables[k])])

\* The attributes of an action node after name and type.
saveProperties(obj) ==
    LET Kept(name) == name \notin ExcludedProperties
        KeptEmulator(p) == p.name \notin ExcludedEmulatorProperties /\ p.value # << >>
        names == SelectSeq(listProperties(obj), Kept)
    IN  [k \in DOMAIN names |-> Attr(names[k], getProperty(obj, names[k]))]
        \o (IF obj.type = "AnalogAxis"
            THEN SelectSeq(EmulatorProperties, KeptEmulator)
            ELSE << >>)

saveAction(st, obj) ==
    Node("action",
         << Attr("name", obj.mName), Attr("type", TypeName(obj.type)) >>
         \o saveProperties(obj),
         << >>,
         [k \in DOMAIN obj.mBindings |-> saveBinding(st, obj.mBindings[k])])

saveSchema(st, name) ==
    LET schema == st.heap[st.mActionSchemas[name].id]
        keys == SortedKeys(DOMAIN schema.mActions)
    IN  Node("schema", << Attr("name", name) >>, << >>,
             [k \in DOMAIN keys |-> saveAction(st, schema.mActions[keys[k]])])

\* saveActionSchemaToXMLFile: the document written to the file.
saveActionSchemaToXMLFile(st) ==
    LET keys == SortedKeys(DOMAIN st.mActionSchemas)
    IN  << Declaration,
           Node("schemas", << >>, << >>,
                [k \in DOMAIN keys |-> saveSchema(st, keys[k])]) >>

\* ------------------------------------------------- loading and saving

\* loadActionSchemaFromXMLFile(filename) on a file the environment supplies:
\* `content` is what the file system holds under filename.
LoadActionSchemaFromXMLFile(content) ==
    /\ Alive
    /\ \E out \in { loadActionSchemaFromXMLFile(mDevices, SchemaState, content) } :
           /\ out.st.nextId <= MaxSchemaObjects
           /\ Store(out.st)
           /\ call' = Call("loadActionSchemaFromXMLFile", [content |-> content],
                           out.raised, out.ret)
           /\ trace' = out.log
    /\ UNCHANGED << deviceVars, crashed, destructed, file >>

\* The documents the environment supplies.
NameAttr(name) == Attr("name", name)
TypeAttr(type) == Attr("type", TypeName(type))
BindNode(attrs, target) == Node("bind", attrs, target, << >>)
BindingNode(attrs, binds) == Node("binding", attrs, << >>, binds)
ActionNode(attrs, bindings) == Node("action", attrs, << >>, bindings)
SchemaNode(attrs, actions) == Node("schema", attrs, << >>, actions)
Document(schemas) == << Declaration, Node("schemas", << >>, << >>, schemas) >>

KeyA == Path(KeyboardName, << "A" >>)
OneBinding == << BindingNode(<< >>, << BindNode(<< >>, KeyA) >>) >>

\* Action nodes that name an action and a class, with their attributes in
\* each order.
CustomAttr == Attr("foo", << "1" >>)
TriggerX(k) ==
    ActionNode(
        CASE k = 1 -> << NameAttr(<< "x" >>), TypeAttr("Trigger"), CustomAttr >>
          [] k = 2 -> << TypeAttr("Trigger"), NameAttr(<< "x" >>), CustomAttr >>
          [] k = 3 -> << NameAttr(<< "x" >>), CustomAttr, TypeAttr("Trigger") >>
          [] k = 4 -> << TypeAttr("Trigger"), CustomAttr, NameAttr(<< "x" >>) >>
          [] k = 5 -> << CustomAttr, NameAttr(<< "x" >>), TypeAttr("Trigger") >>
          [] k = 6 -> << CustomAttr, TypeAttr("Trigger"), NameAttr(<< "x" >>) >>,
        << >>)
TriggerY == ActionNode(<< NameAttr(<< "y" >>), TypeAttr("Trigger") >>, OneBinding)
SequenceX == ActionNode(<< TypeAttr("Sequence"), NameAttr(<< "x" >>) >>, << >>)

\* Action nodes without a name, without a type, with a type that names no
\* class.
MalformedActionNodes ==
    { ActionNode(<< TypeAttr("Trigger") >>, OneBinding),
      ActionNode(<< NameAttr(<< "x" >>) >>, OneBinding),
      ActionNode(<< NameAttr(<< "x" >>), Attr("type", << "B", "a", "d" >>) >>,
                 OneBinding) }

Documents ==
    \* a malformed action node before and after a well-formed one
    { Document(<< SchemaNode(<< NameAttr(<< "A" >>) >>, << m, TriggerY >>),
                  SchemaNode(<< NameAttr(KeyboardName) >>, << SequenceX >>) >>) :
          m \in MalformedActionNodes }
    \cup
    { Document(<< SchemaNode(<< NameAttr(<< "A" >>) >>, << TriggerY, m >>) >>) :
          m \in MalformedActionNodes }
    \cup
    \* the attributes of an action node in each order
    { Document(<< SchemaNode(<< NameAttr(<< "A" >>) >>, << TriggerX(k) >>) >>) :
          k \in 1..6 }
    \cup
    \* a schema node without a name, before a named one
    { Document(<< SchemaNode(<< >>, << TriggerY >>),
                  SchemaNode(<< NameAttr(<< "A" >>) >>, << TriggerY >>) >>),
    \* two actions of one schema
      Document(<< SchemaNode(<< NameAttr(<< "A" >>) >>,
                             << TriggerX(1), TriggerY >>) >>),
    \* documents without a `schemas` root
      << >>,
      << Declaration >>,
      << Node("config", << >>, << >>,
              << SchemaNode(<< NameAttr(<< "A" >>) >>, << TriggerY >>) >>) >>,
      << SchemaNode(<< NameAttr(<< "A" >>) >>, << TriggerY >>) >> }

\* ---------------------------------------------------------- specifications

\* The managers the lookup specification initializes with: the first one the
\* application creates, reporting one keyboard, at most one mouse and no
\* joystick.
LookupManagers ==
    { m \in FreshManagers :
          m.id = 1 /\ m.nKeyboard = 1 /\ m.nMouse <= 1 /\ m.nJoyStick = 0 }

\* Name resolution over the devices of a backend and a few schemas.
LookupNext ==
    \/ \E ois \in LookupManagers : Initialize(ois)
    \/ Finalize
    \/ \E name \in { << "A" >>, KeyboardName } : CreateActionSchema(name, FALSE)
    \/ \E schemaName \in SchemaNames, name \in ActionNames :
           CreateAction(schemaName, name, "Trigger")
    \/ \E name \in Paths : LookupState(name)
    \/ \E name \in Paths, throwOnMissing \in BOOLEAN : LookupAction(name, throwOnMissing)
    \/ \E name \in Paths : LookupBindable(name)

SpecLookup == Init /\ [][LookupNext]_vars

\* The device lifecycle and the frame driver, with schemas to process.
LifecycleNext ==
    \/ \E ois \in FreshManagers : Initialize(ois)
    \/ \E ois \in FreshManagers \cup {mOIS, Null} : InitializeAgain(ois)
    \/ InitializeNull
    \/ Finalize
    \/ \E onNull \in UndefinedOutcomes : Process(onNull)
    \/ \E name \in { << "A" >>, DefaultName } : CreateActionSchema(name, FALSE)

SpecLifecycle == Init /\ [][LifecycleNext]_vars

\* ------------------------------------------------------------ destructor

\* The loop of ~System stopping while one schema is still registered.
destructorLoops_LeavesOne(st) == Cardinality(DOMAIN st.mActionSchemas) > 1

\* while (mActionSchemas.size() > 0)
destructorLoops(st) == Cardinality(DOMAIN st.mActionSchemas) > 0

\* mActionSchemas.begin()->first: the least key of the std::map.
firstActionSchema(st) == SortedKeys(DOMAIN st.mActionSchemas)[1]

\* The destructor is between its entry and its return.
InDestructor == call.op = "~System" /\ ~destructed /\ ~crashed

\* ~System is called: `call` records the schemas registered at that moment.
DestructorEnter ==
    /\ Alive
    /\ call' = Call("~System",
                    [schemas |-> { mActionSchemas[n] : n \in DOMAIN mActionSchemas }],
                    "none", Null)
    /\ trace' = << >>
    /\ UNCHANGED << deviceVars, schemaVars, crashed, destructed, file >>

\* One turn of the loop: destroyActionSchema(mActionSchemas.begin()->first).
DestructorLoop ==
    /\ InDestructor
    /\ destructorLoops(SchemaState)
    /\ LET out == destroyActionSchema(SchemaState, firstActionSchema(SchemaState))
       IN  /\ Store(out.st)
           /\ call' = [call EXCEPT !.raised = out.raised]
           /\ trace' = trace \o out.log
    /\ UNCHANGED << deviceVars, crashed, destructed, file >>

\* The loop is left and the destructor returns.
DestructorReturn ==
    /\ InDestructor
    /\ ~destructorLoops(SchemaState)
    /\ destructed' = TRUE
    /\ UNCHANGED << deviceVars, schemaVars, crashed, file, call, trace >>

\* A System with devices and schemas, then destroyed.
TeardownNext ==
    \/ \E ois \in LookupManagers : Initialize(ois)
    \/ \E name \in SchemaNames, setAsDefault \in BOOLEAN :
           CreateActionSchema(name, setAsDefault)
    \/ \E name \in SchemaNames : DestroyActionSchema(name)
    \/ DestructorEnter
    \/ DestructorLoop
    \/ DestructorReturn

\* The destructor is one call running on one thread: once entered, each turn
\* of its loop and its return are taken.
SpecTeardown ==
    /\ Init
    /\ [][TeardownNext]_vars
    /\ WF_vars(DestructorLoop)
    /\ WF_vars(DestructorReturn)

\* Documents are loaded into a System that may hold devices, schemas and
\* actions already.
LoadNext ==
    \/ \E ois \in LookupManagers : Initialize(ois)
    \/ \E name \in { << "A" >> } : CreateActionSchema(name, TRUE)
    \/ \E name \in { << "x" >> } : CreateAction(<< "A" >>, name, "Trigger")
    \/ \E content \in { File(doc) : doc \in Documents } \cup { NoFile } :
           LoadActionSchemaFromXMLFile(content)

SpecLoad == Init /\ [][LoadNext]_vars

\* The application configures an action: action->createBinding(), with the
\* Binding's mOptional set.
CreateBinding(schemaName, name, optional) ==
    /\ Alive
    /\ file = NoFile
    /\ hasActionSchema(SchemaState, schemaName)
    /\ hasAction(heap[mActionSchemas[schemaName].id], name)
    /\ LET action == ActionPtr(mActionSchemas[schemaName].id, name)
           made == createBinding(SchemaState, action)
           obj == actionObject(made.st, action)
       IN  /\ Len(actionObject(SchemaState, action).mBindings) < MaxBindings
           /\ Store(withAction(made.st, action,
                        [obj EXCEPT !.mBindings[made.ret].mOptional = optional]))
           /\ call' = Call("createBinding",
                           [schema |-> schemaName, name |-> name,
                            optional |-> optional],
                           "none", made.ret)
           /\ trace' = made.log
    /\ UNCHANGED << deviceVars, crashed, destructed, file >>

\* binding->bind(target, role) on the last Binding of the action.
Bind(schemaName, name, target, role) ==
    /\ Alive
    /\ file = NoFile
    /\ hasActionSchema(SchemaState, schemaName)
    /\ hasAction(heap[mActionSchemas[schemaName].id], name)
    /\ LET action == ActionPtr(mActionSchemas[schemaName].id, name)
           bindings == actionObject(SchemaState, action).mBindings
       IN  /\ bindings # << >>
           /\ Len(bindings[Len(bindings)].mBindables) < MaxBinds
           /\ \E out \in { Binding_bind(mDevices, SchemaState, action,
                                        Len(bindings), target, role) } :
                  /\ Store(out.st)
                  /\ call' = Call("bind",
                                  [schema |-> schemaName, name |-> name,
                                   target |-> target, role |-> role],
                                  out.raised, out.ret)
                  /\ trace' = out.log
    /\ UNCHANGED << deviceVars, crashed, destructed, file >>

\* saveActionSchemaToXMLFile(filename): the file is replaced.
SaveActionSchemaToXMLFile ==
    /\ Alive
    /\ file' = File(saveActionSchemaToXMLFile(SchemaState))
    /\ call' = Call("saveActionSchemaToXMLFile", NoArg, "none", 0)
    /\ trace' = << >>
    /\ UNCHANGED << deviceVars, schemaVars, crashed, destructed >>

\* The role the application gives the second input of a Binding.
RoleName == << "r" >>

\* The application builds the bindings of an action of the schema "A" on
\* the keyboard's key "A", saves them once they are built, and loads the
\* file it saved.
SaveNext ==
    \/ \E ois \in LookupManagers : /\ file = NoFile
                                   /\ Initialize(ois)
    \/ /\ file = NoFile
       /\ CreateActionSchema(<< "A" >>, FALSE)
    \/ \E type \in { "Trigger", "AnalogAxis" } :
           /\ file = NoFile
           /\ CreateAction(<< "A" >>, << "x" >>, type)
    \/ \E optional \in BOOLEAN : CreateBinding(<< "A" >>, << "x" >>, optional)
    \/ Bind(<< "A" >>, << "x" >>, KeyA, << >>)
    \/ Bind(<< "A" >>, << "x" >>, NoneName, RoleName)
    \/ SaveActionSchemaToXMLFile
    \/ DestroyActionSchema(<< "A" >>)
    \/ LoadActionSchemaFromXMLFile(file)

SpecSave == Init /\ [][SaveNext]_vars

\* The documents loaded between the calls on the schema registry: one that
\* names the schema "A", one that names "Default" and "A", one whose first
\* schema node has no name.
DefaultDocuments ==
    { Document(<< SchemaNode(<< NameAttr(<< "A" >>) >>, << TriggerY >>) >>),
      Document(<< SchemaNode(<< NameAttr(DefaultName) >>, << >>),
                  SchemaNode(<< NameAttr(<< "A" >>) >>, << TriggerY >>) >>),
      Document(<< SchemaNode(<< >>, << TriggerY >>),
                  SchemaNode(<< NameAttr(KeyboardName) >>, << >>) >>) }

\* The calls that create, destroy and select schemas, and loads.
DefaultNext ==
    \/ SchemaNext
    \/ \E content \in { File(doc) : doc \in DefaultDocuments } \cup { NoFile } :
           LoadActionSchemaFromXMLFile(content)

SpecDefault == Init /\ [][DefaultNext]_vars

\* Documents with nodes of other tags among the children: a direct bind
\* after and before a binding, a node that is no schema after a schema node,
\* a node that is no action after an action node, and a document of
\* schema, action, binding and bind nodes only.
TagDocuments ==
    { Document(<< SchemaNode(<< NameAttr(<< "A" >>) >>,
          << ActionNode(<< NameAttr(<< "x" >>), TypeAttr("Trigger") >>,
                        OneBinding \o << BindNode(<< >>, KeyA) >>) >>) >>),
      Document(<< SchemaNode(<< NameAttr(<< "A" >>) >>,
          << ActionNode(<< NameAttr(<< "x" >>), TypeAttr("Trigger") >>,
                        << BindNode(<< >>, KeyA) >> \o OneBinding) >>) >>),
      Document(<< SchemaNode(<< NameAttr(<< "A" >>) >>, << TriggerY >>),
                  Node("note", << NameAttr(KeyboardName) >>, << >>, << >>) >>),
      Document(<< SchemaNode(<< NameAttr(<< "A" >>) >>,
          << TriggerY,
             Node("note", << NameAttr(<< "x" >>), TypeAttr("Trigger") >>,
                  << >>, << >>) >>) >>),
      Document(<< SchemaNode(<< NameAttr(<< "A" >>) >>,
          << ActionNode(<< NameAttr(<< "y" >>), TypeAttr("Sequence") >>,
                        OneBinding \o OneBinding) >>) >>) }

\* Such documents are loaded into a System with or without devices, in
\* which the schema "A" may exist and be destroyed again.
TagsNext ==
    \/ \E ois \in LookupManagers : Initialize(ois)
    \/ CreateActionSchema(<< "A" >>, FALSE)
    \/ DestroyActionSchema(<< "A" >>)
    \/ \E doc \in TagDocuments : LoadActionSchemaFromXMLFile(File(doc))

SpecTags == Init /\ [][TagsNext]_vars

\* The whole System.  Its state space is the product of the parts above; the
\* properties below are stated under the part they concern.
Next ==
    \/ SchemaNext
    \/ LookupNext
    \/ LifecycleNext
    \/ TeardownNext
    \/ LoadNext
    \/ SaveNext
    \/ DefaultNext
    \/ TagsNext

Spec == Init /\ [][Next]_vars

\* ------------------------------------------------- claims: schema registry

\* C1: createActionSchema(name, setAsDefault) raises a Duplicate error
\* exactly when a schema named `name` is already registered, and then leaves
\* the registry and the default reference unchanged; for a name not yet
\* registered it succeeds and registers exactly one new schema, a newly
\* allocated object, under that name.
C1_CreateActionSchemaContract ==
    [][ call'.op = "createActionSchema" =>
          LET name == call'.arg.name
              ret == call'.ret
          IN  IF name \in DOMAIN mActionSchemas
              THEN /\ call'.raised = "E_Duplicate"
                   /\ mActionSchemas' = mActionSchemas
                   /\ mDefaultActionSchema' = mDefaultActionSchema
                   /\ heap' = heap
              ELSE /\ call'.raised = "none"
                   /\ DOMAIN mActionSchemas' = DOMAIN mActionSchemas \cup {name}
                   /\ \A n \in DOMAIN mActionSchemas :
                          mActionSchemas'[n] = mActionSchemas[n]
                   /\ mActionSchemas'[name] = ret
                   /\ ret.kind = "ActionSchema"
                   /\ ret.id \notin DOMAIN heap
                   /\ DOMAIN heap' = DOMAIN heap \cup {ret.id}
                   /\ \A i \in DOMAIN heap : heap'[i] = heap[i]
                   /\ heap'[ret.id].mName = name
      ]_vars

\* A second createActionSchema of a registered name has raised Duplicate.
C1_Witness ==
    /\ call.op = "createActionSchema"
    /\ call.raised = "E_Duplicate"
    /\ call.arg.name \in DOMAIN mActionSchemas

\* C2: destroyActionSchema(name) on a registered schema removes exactly that
\* schema from the registry and releases it; the default reference becomes
\* null when the schema was the default (it is not reassigned to one of the
\* remaining schemas) and is unchanged otherwise.
C2_DestroyActionSchemaContract ==
    [][ (call'.op = "destroyActionSchema" /\ call'.arg.name \in DOMAIN mActionSchemas) =>
          LET name == call'.arg.name
              schema == mActionSchemas[name]
          IN  /\ call'.raised = "none"
              /\ DOMAIN mActionSchemas' = DOMAIN mActionSchemas \ {name}
              /\ \A n \in DOMAIN mActionSchemas' :
                     mActionSchemas'[n] = mActionSchemas[n]
              /\ DOMAIN heap' = DOMAIN heap \ {schema.id}
              /\ \A i \in DOMAIN heap' : heap'[i] = heap[i]
              /\ mDefaultActionSchema' =
                     IF mDefaultActionSchema = schema THEN Null
                     ELSE mDefaultActionSchema
      ]_vars

\* The default schema has been destroyed while another schema stays
\* registered, and the default reference is null.
C2_Witness ==
    /\ call.op = "destroyActionSchema"
    /\ call.raised = "none"
    /\ Event("setDefaultActionSchema", Null) \in { trace[k] : k \in DOMAIN trace }
    /\ mDefaultActionSchema = Null
    /\ mActionSchemas # EmptyMap

\* The last call destroyed the schema that was the default.
DestroyedTheDefault ==
    /\ call.op = "destroyActionSchema"
    /\ call.raised = "none"
    /\ Event("setDefaultActionSchema", Null) \in { trace[k] : k \in DOMAIN trace }

\* C3: right after the default schema has been destroyed, a call of
\* getDefaultActionSchemaAutoCreate() succeeds: it creates a new schema named
\* "Default", makes it the default and returns it, never the destroyed one.
C3_AutoCreateAfterDestroyingDefault ==
    [][ (DestroyedTheDefault /\ call'.op = "getDefaultActionSchemaAutoCreate") =>
          LET ret == call'.ret
          IN  /\ call'.raised = "none"
              /\ ret.kind = "ActionSchema"
              /\ ret.id \notin DOMAIN heap
              /\ Event("delete ActionSchema", ret) \notin { trace[k] : k \in DOMAIN trace }
              /\ ret.id \in DOMAIN heap'
              /\ heap'[ret.id].mName = DefaultName
              /\ DefaultName \in DOMAIN mActionSchemas'
              /\ mActionSchemas'[DefaultName] = ret
              /\ mDefaultActionSchema' = ret
      ]_vars

\* ------------------------------------------------- claims: name resolution

\* C4: for every registered device D and every state S of D,
\* lookupState("D/S") returns the State that getDevice("D").getState("S")
\* returns, also when S itself contains "/".
C4_LookupStateAgreesWithGetState ==
    \A D \in DOMAIN mDevices :
        \A S \in StateNames(mDevices[D]) :
            (call.op = "lookupState" /\ call.arg.name = Path(D, S)) =>
                /\ call.raised = "none"
                /\ getDevice(mDevices, D).raised = "none"
                /\ getState(getDevice(mDevices, D).ret, S).raised = "none"
                /\ call.ret = getState(getDevice(mDevices, D).ret, S).ret
                /\ call.ret = StatePtr(mDevices[D], S)

\* lookupState("Keyboard/A/b") has returned the keyboard's state "A/b".
C4_Witness ==
    /\ call.op = "lookupState"
    /\ call.arg.name = Path(KeyboardName, << "A", "/", "b" >>)
    /\ KeyboardName \in DOMAIN mDevices
    /\ call.ret = StatePtr(mDevices[KeyboardName], << "A", "/", "b" >>)

HasSlash(name) == \E k \in 1..Len(name) : name[k] = "/"

\* C5: lookupState(path) never raises, and returns a State only when path is
\* deviceName "/" stateName for a registered device that owns stateName; a
\* path without "/" yields null.
C5_LookupStateOnlyResolvesPaths ==
    call.op = "lookupState" =>
        /\ call.raised = "none"
        /\ call.ret # Null =>
               \E D \in DOMAIN mDevices :
                   \E S \in StateNames(mDevices[D]) :
                       /\ call.arg.name = Path(D, S)
                       /\ call.ret = StatePtr(mDevices[D], S)
        /\ ~HasSlash(call.arg.name) => call.ret = Null

\* Whether path is schemaName "/" actionName, split at its first "/", for a
\* registered schema that holds the action; and the action it names.
ActionHit(path) ==
    \E s \in DOMAIN mActionSchemas :
        \E a \in DOMAIN heap[mActionSchemas[s].id].mActions :
            ~HasSlash(s) /\ path = Path(s, a)

ActionAt(path) ==
    LET s == CHOOSE s \in DOMAIN mActionSchemas :
                 \E a \in DOMAIN heap[mActionSchemas[s].id].mActions :
                     ~HasSlash(s) /\ path = Path(s, a)
    IN  ActionPtr(mActionSchemas[s].id, SubSeq(path, Len(s) + 2, Len(path)))

\* C6: lookupAction(path, false) never raises and returns null on a miss;
\* lookupAction(path, true) raises on every miss; on a hit both return the
\* action registered under schemaName/actionName.
C6_LookupActionMissAndHit ==
    call.op = "lookupAction" =>
        IF ActionHit(call.arg.name)
        THEN call.raised = "none" /\ call.ret = ActionAt(call.arg.name)
        ELSE IF call.arg.throwOnMissing
        THEN call.raised = "E_General"
        ELSE call.raised = "none" /\ call.ret = Null

\* C7: lookupBindable(path) returns the State when lookupState(path)
\* resolves, even if an Action resolves under the same path; otherwise the
\* Action of lookupAction(path); null, without raising, when neither resolves.
C7_LookupBindablePrefersState ==
    call.op = "lookupBindable" =>
        LET state == lookupState(mDevices, call.arg.name).ret
            action == lookupAction(SchemaState, call.arg.name, FALSE).ret
        IN  /\ call.raised = "none"
            /\ state # Null => (call.ret = state /\ call.ret.kind = "State")
            /\ (state = Null /\ action # Null) =>
                   (call.ret = action /\ call.ret.kind = "Action")
            /\ (state = Null /\ action = Null) => call.ret = Null

\* lookupBindable has returned a State under a path that also names an
\* Action: the schema "Keyboard" holds an action "A".
C7_Witness ==
    /\ call.op = "lookupBindable"
    /\ call.ret.kind = "State"
    /\ lookupAction(SchemaState, call.arg.name, FALSE).ret # Null

\* ------------------------------------------------ claims: device lifecycle

Events(ev) == { k \in DOMAIN trace : trace[k].ev = ev }

\* C8: initialize on a System that is already initialized, with the same or
\* another backend, creates no backend device and leaves the device
\* registry, the stored backend and the initialized flag unchanged.
C8_InitializeIdempotent ==
    [][ (call'.op = "initialize" /\ mInitialized) =>
          /\ call'.raised = "none"
          /\ { k \in DOMAIN trace' : trace'[k].ev = "createInputObject" } = {}
          /\ oisObjects' = oisObjects
          /\ mDevices' = mDevices
          /\ mOIS' = mOIS
          /\ mInitialized'
          /\ UNCHANGED << mOISMouse, mOISKeyboard, mOISJoysticks,
                          mMouse, mKeyboard, mJoysticks >>
      ]_vars

\* initialize has been called with another backend on an initialized System.
C8_Witness ==
    /\ call.op = "initialize"
    /\ mInitialized
    /\ call.arg.ois # Null
    /\ call.arg.ois # mOIS
    /\ trace = << >>

\* C9: finalize() on an initialized System, whatever devices it holds,
\* leaves the device registry empty, every backend object destroyed, the
\* backend released and the System uninitialized; on an uninitialized System
\* it changes nothing.
C9_FinalizeReleasesEverything ==
    [][ call'.op = "finalize" =>
          IF mInitialized
          THEN /\ call'.raised = "none"
               /\ mDevices' = EmptyMap
               /\ oisObjects' = {}
               /\ mOIS' = Null
               /\ trace'[Len(trace')] = Event("destroyInputSystem", mOIS)
               /\ ~mInitialized'
               /\ mOISMouse' = Null /\ mOISKeyboard' = Null /\ mOISJoysticks' = << >>
               /\ mMouse' = Null /\ mKeyboard' = Null /\ mJoysticks' = << >>
          ELSE /\ call'.raised = "none"
               /\ trace' = << >>
               /\ UNCHANGED << deviceVars, schemaVars, destructed, file >>
      ]_vars

\* finalize has torn down a System that held a keyboard, a mouse and two
\* joysticks.
C9_Witness ==
    /\ call.op = "finalize"
    /\ ~mInitialized
    /\ mDevices = EmptyMap
    /\ Cardinality(Events("destroyInputObject")) = 4
    /\ Cardinality(Events("destroyInputSystem")) = 1

\* C10: within one process(dt) call on an initialized System every capture
\* comes before every Device::process, every Device::process before every
\* ActionSchema::process, and each registered Device and each registered
\* ActionSchema is processed exactly once.
C10_ProcessOrderAndCoverage ==
    (call.op = "process" /\ mInitialized) =>
        /\ \A c \in Events("capture"), d \in Events("Device::process") : c < d
        /\ \A d \in Events("Device::process"), s \in Events("ActionSchema::process") :
               d < s
        /\ \A D \in DOMAIN mDevices :
               Cardinality({ k \in Events("Device::process") :
                                 trace[k].obj = mDevices[D] }) = 1
        /\ \A S \in DOMAIN mActionSchemas :
               Cardinality({ k \in Events("ActionSchema::process") :
                                 trace[k].obj = mActionSchemas[S] }) = 1

\* The same statement for the calls in which no capture went through a null
\* handle: it holds there.
ProcessOrderWhenEveryHandleExists ==
    (mOISMouse # Null /\ mOISKeyboard # Null) => C10_ProcessOrderAndCoverage

\* C11: process(dt) on a System that is not initialized (never initialized,
\* or finalized) does nothing: no capture is issued and no Device and no
\* ActionSchema is processed, even when schemas are registered.
C11_ProcessUninitializedIsNoOp ==
    [][ (call'.op = "process" /\ ~mInitialized) =>
          /\ call'.raised = "none"
          /\ trace' = << >>
          /\ ~crashed'
          /\ UNCHANGED << deviceVars, schemaVars >>
      ]_vars

\* process has run on a finalized System that holds a registered schema.
C11_Witness ==
    /\ call.op = "process"
    /\ ~mInitialized
    /\ oisSerial > 0
    /\ mActionSchemas # EmptyMap
    /\ trace = << >>

\* C18: the core calls capture() only on a backend object that initialize
\* created and finalize has not destroyed, and finalize destroys every object
\* initialize created exactly once.
C18_CaptureOnlyOnLiveHandles ==
    /\ call.op = "process" =>
           \A k \in Events("capture") : trace[k].obj \in oisObjects
    /\ call.op = "finalize" =>
           \A k, j \in Events("destroyInputObject") :
               trace[k].obj = trace[j].obj => k = j

\* The part of C18 about creation and destruction, which holds: a finalize
\* destroys exactly the live objects, each once, and none stays behind.
EveryHandleDestroyedOnce ==
    [][ (call'.op = "finalize" /\ mInitialized) =>
          /\ { trace'[k].obj : k \in { j \in DOMAIN trace' :
                                          trace'[j].ev = "destroyInputObject" } }
                 = oisObjects
          /\ Cardinality({ j \in DOMAIN trace' : trace'[j].ev = "destroyInputObject" })
                 = Cardinality(oisObjects)
          /\ oisObjects' = {}
      ]_vars

\* The turns of the destructor's loop that deleted the schema `schema`.
Deletions(schema) ==
    { k \in DOMAIN trace :
          trace[k] = Event("delete ActionSchema", schema) }

\* C20: the System destructor terminates whatever the number of registered
\* schemas; when it returns the schema registry is empty, the default
\* reference is null and each schema that was registered has been destroyed
\* exactly once; it never touches the device registry.
C20_DestructorEmptiesRegistry ==
    /\ (call.op = "~System") ~> destructed
    /\ [](destructed =>
            /\ mActionSchemas = EmptyMap
            /\ mDefaultActionSchema = Null
            /\ DOMAIN heap = {}
            /\ call.raised = "none"
            /\ \A schema \in call.arg.schemas : Cardinality(Deletions(schema)) = 1
            /\ Cardinality(Events("delete ActionSchema"))
                   = Cardinality(call.arg.schemas))
    /\ [][ call'.op = "~System" => UNCHANGED deviceVars ]_vars

\* A System with registered devices, two schemas and a default has been
\* destroyed.
C20_Witness ==
    /\ destructed
    /\ Cardinality(call.arg.schemas) >= 2
    /\ Events("setDefaultActionSchema") # {}
    /\ DOMAIN mDevices # {}

\* ------------------------------------------------------ claims: documents

Range(seq) == { seq[k] : k \in DOMAIN seq }

\* The shape of a document: the schema nodes are the children tagged
\* `schema` of the root `schemas`, the action nodes of a schema node its
\* children tagged `action`.
SchemaNodes(doc) ==
    LET IsSchema(n) == n.tag = "schema"
    IN  IF first_node(doc, "schemas") = 0 THEN << >>
        ELSE SelectSeq(doc[first_node(doc, "schemas")].children, IsSchema)

ActionNodes(schemaNode) ==
    LET IsAction(n) == n.tag = "action"
    IN  SelectSeq(schemaNode.children, IsAction)

Named(node) == first_attribute(node, "name") # Null
NameOf(node) == first_attribute(node, "name").value

\* An action node without a name, without a type, or with a type outside
\* AnalogAxis, Trigger, Sequence.
Malformed(actionNode) ==
    \/ first_attribute(actionNode, "name") = Null
    \/ first_attribute(actionNode, "type") = Null
    \/ first_attribute(actionNode, "type").value
           \notin { TypeName(t) : t \in ActionTypes }

\* The class a well-formed action node names.
ClassOf(actionNode) ==
    CHOOSE t \in ActionTypes : TypeName(t) = first_attribute(actionNode, "type").value

\* The step is a call of loadActionSchemaFromXMLFile on a file that exists.
LoadsDocument ==
    /\ call'.op = "loadActionSchemaFromXMLFile"
    /\ call'.arg.content # NoFile

\* The last call loaded a file that exists.
LoadedDocument ==
    /\ call.op = "loadActionSchemaFromXMLFile"
    /\ call.arg.content # NoFile

\* The actions of the schema registered under `name`, before and after the
\* step.
ActionsOf(name) == heap[mActionSchemas[name].id].mActions
ActionsAfter(name) == heap'[mActionSchemas'[name].id].mActions

\* C12: loadActionSchemaFromXMLFile returns 1 when the file cannot be opened
\* and then leaves the schema registry unchanged; it returns 2 when the
\* document holds a schema node or an action node without a `name`
\* attribute; it returns 0 otherwise.
C12_LoadStatusCodes ==
    [][ (call'.op = "loadActionSchemaFromXMLFile" /\ call'.raised = "none") =>
          IF call'.arg.content = NoFile
          THEN call'.ret = 1 /\ UNCHANGED schemaVars
          ELSE LET doc == call'.arg.content.doc
                   unnamed ==
                       \E s \in Range(SchemaNodes(doc)) :
                           \/ ~Named(s)
                           \/ \E a \in Range(ActionNodes(s)) : ~Named(a)
               IN  call'.ret = IF unnamed THEN 2 ELSE 0
      ]_vars

\* The part of C12 about a file that cannot be opened, which holds.
MissingFileReturnsOne ==
    [][ (call'.op = "loadActionSchemaFromXMLFile" /\ call'.arg.content = NoFile) =>
          /\ call'.raised = "none"
          /\ call'.ret = 1
          /\ UNCHANGED schemaVars
      ]_vars

\* C13: loading a document without a `schemas` root raises nothing and
\* leaves the schema registry (names, actions, default reference) as it was,
\* whatever the state before, one produced by an earlier load included.
C13_NoSchemasRootLoadsNothing ==
    [][ (LoadsDocument /\ first_node(call'.arg.content.doc, "schemas") = 0) =>
          /\ call'.raised = "none"
          /\ call'.ret = 0
          /\ UNCHANGED schemaVars
      ]_vars

\* A document that holds schema nodes under another root has been loaded
\* into a System whose registry an earlier load filled.
C13_Witness ==
    /\ LoadedDocument
    /\ LET doc == call.arg.content.doc
       IN  /\ first_node(doc, "schemas") = 0
           /\ \E n \in Range(doc) : first_node(n.children, "schema") # 0
    /\ \E name \in DOMAIN mActionSchemas :
           \E a \in DOMAIN ActionsOf(name) : ActionsOf(name)[a].mBindings # << >>

\* The document without its malformed action nodes.
WithoutMalformed(doc) ==
    LET Kept(n) == n.tag # "action" \/ ~Malformed(n)
        Schema(s) == [s EXCEPT !.children = SelectSeq(s.children, Kept)]
        Root(r) == [r EXCEPT !.children = [k \in DOMAIN r.children |->
                                              Schema(r.children[k])]]
    IN  [k \in DOMAIN doc |-> IF doc[k].tag = "schemas" THEN Root(doc[k]) ELSE doc[k]]

HasMalformed(doc) ==
    \E s \in Range(SchemaNodes(doc)) : \E a \in Range(ActionNodes(s)) : Malformed(a)

\* No well-formed action node of the document names an action its schema
\* holds already, and no two of them in one schema node share a name.
NamesAreNew(doc) ==
    \A s \in Range(SchemaNodes(doc)) :
        Named(s) =>
            LET nodes == ActionNodes(s)
            IN  /\ \A a \in Range(nodes) :
                       (~Malformed(a) /\ NameOf(s) \in DOMAIN mActionSchemas)
                           => NameOf(a) \notin DOMAIN ActionsOf(NameOf(s))
                /\ \A i, j \in DOMAIN nodes :
                       (~Malformed(nodes[i]) /\ ~Malformed(nodes[j])
                        /\ NameOf(nodes[i]) = NameOf(nodes[j])) => i = j

\* C14: a malformed action node (no name, no type, or a type outside
\* AnalogAxis, Trigger, Sequence) creates no action and raises no error: the
\* load ends as the load of the document without that node does, and the
\* well-formed action nodes beside it and the other schema nodes of the
\* document are loaded.
C14_MalformedActionNodeIsSkipped ==
    [][ (LoadsDocument /\ HasMalformed(call'.arg.content.doc)) =>
          LET doc == call'.arg.content.doc
              without == loadActionSchemaFromXML(mDevices, SchemaState,
                                                 WithoutMalformed(doc))
          IN  /\ call'.raised = without.raised
              /\ mActionSchemas' = without.st.mActionSchemas
              /\ mDefaultActionSchema' = without.st.mDefaultActionSchema
              /\ heap' = without.st.heap
              /\ NamesAreNew(doc) =>
                     /\ call'.raised = "none"
                     /\ \A s \in Range(SchemaNodes(doc)) :
                            Named(s) =>
                                /\ NameOf(s) \in DOMAIN mActionSchemas'
                                /\ \A a \in Range(ActionNodes(s)) :
                                       ~Malformed(a) =>
                                           /\ NameOf(a) \in DOMAIN ActionsAfter(NameOf(s))
                                           /\ ActionsAfter(NameOf(s))[NameOf(a)].type
                                                  = ClassOf(a)
      ]_vars

\* A document whose first schema node holds an action node with an unknown
\* type named x before a well-formed one named y, and which holds a second
\* schema node, has been loaded: y and the second schema are there, x is not.
C14_Witness ==
    /\ LoadedDocument
    /\ call.raised = "none"
    /\ LET doc == call.arg.content.doc
       IN  /\ HasMalformed(doc)
           /\ Len(SchemaNodes(doc)) = 2
           /\ \E a \in Range(ActionNodes(SchemaNodes(doc)[1])) :
                  /\ first_attribute(a, "type") # Null
                  /\ first_attribute(a, "name") # Null
                  /\ Malformed(a)
    /\ << "A" >> \in DOMAIN mActionSchemas
    /\ KeyboardName \in DOMAIN mActionSchemas
    /\ DOMAIN ActionsOf(<< "A" >>) = { << "y" >> }
    /\ DOMAIN ActionsOf(KeyboardName) = { << "x" >> }

\* C15: loading a document whose schema node names a registered schema
\* reuses that schema: the schema stays the same object, the number of
\* registered schemas does not grow, the actions the schema held are
\* retained, and the actions of the document whose names the schema did not
\* hold are added to it.
C15_LoadMergesIntoRegisteredSchema ==
    [][ LoadsDocument =>
          \A s \in Range(SchemaNodes(call'.arg.content.doc)) :
              (Named(s) /\ NameOf(s) \in DOMAIN mActionSchemas) =>
                  /\ NameOf(s) \in DOMAIN mActionSchemas'
                  /\ mActionSchemas'[NameOf(s)] = mActionSchemas[NameOf(s)]
                  /\ \A a \in DOMAIN ActionsOf(NameOf(s)) :
                         a \in DOMAIN ActionsAfter(NameOf(s))
                  /\ \A a \in Range(ActionNodes(s)) :
                         (~Malformed(a) /\ NameOf(a) \notin DOMAIN ActionsOf(NameOf(s)))
                             => NameOf(a) \in DOMAIN ActionsAfter(NameOf(s))
      ]_vars

\* The parts of C15 about the schema itself, which hold: no schema is
\* created for a name that is registered and the actions it held stay.
LoadReusesRegisteredSchema ==
    [][ LoadsDocument =>
          \A s \in Range(SchemaNodes(call'.arg.content.doc)) :
              (Named(s) /\ NameOf(s) \in DOMAIN mActionSchemas) =>
                  /\ NameOf(s) \in DOMAIN mActionSchemas'
                  /\ mActionSchemas'[NameOf(s)] = mActionSchemas[NameOf(s)]
                  /\ \A a \in DOMAIN ActionsOf(NameOf(s)) :
                         /\ a \in DOMAIN ActionsAfter(NameOf(s))
                         /\ ActionsAfter(NameOf(s))[a] = ActionsOf(NameOf(s))[a]
      ]_vars

\* C19: for every order of the attributes of an action node, each attribute
\* other than type and name is stored in the property table of the action
\* the node creates, or the load reports an error; none is dropped in
\* silence.
C19_AttributesStoredOrRejected ==
    [][ LoadsDocument =>
          \A s \in Range(SchemaNodes(call'.arg.content.doc)) :
              \A a \in Range(ActionNodes(s)) :
                  \A attr \in Range(a.attrs) :
                      (Named(s) /\ attr.name \notin { "type", "name" }) =>
                          \/ call'.raised # "none"
                          \/ call'.ret # 0
                          \/ /\ ~Malformed(a)
                             /\ NameOf(a) \in DOMAIN ActionsAfter(NameOf(s))
                             /\ attr \in Range(ActionsAfter(NameOf(s))[NameOf(a)].mProperties)
      ]_vars

\* The part of C19 that holds: an attribute that follows both type and name
\* is stored.
AttributesAfterTypeAndNameAreStored ==
    [][ (LoadsDocument /\ call'.raised = "none") =>
          \A s \in Range(SchemaNodes(call'.arg.content.doc)) :
              \A a \in Range(ActionNodes(s)) :
                  \A k \in DOMAIN a.attrs :
                      (/\ Named(s)
                       /\ a.attrs[k].name \notin { "type", "name" }
                       /\ ~Malformed(a)
                       /\ \E i, j \in 1..(k - 1) :
                              a.attrs[i].name = "type" /\ a.attrs[j].name = "name") =>
                          a.attrs[k] \in Range(ActionsAfter(NameOf(s))[NameOf(a)].mProperties)
      ]_vars

\* ---------------------------------------------------------- claims: save

\* The schema part of a System that was just constructed.
FreshSystem ==
    [ mActionSchemas |-> EmptyMap, mDefaultActionSchema |-> Null,
      heap |-> << >>, nextId |-> 0 ]

\* What a pair of a Binding stands for: a pair without a Bindable holds the
\* name of its target and no role; the others hold their role, and their
\* target is the placeholder or the Bindable.
RoleOf(pair) == IF pair.second = Null THEN << >> ELSE pair.first
TargetName(st, pair) ==
    IF pair.second = Null THEN pair.first
    ELSE IF pair.second = Placeholder THEN NoneName
    ELSE getBindableName(st, pair.second)

\* The schema object holds one action, a Trigger, with one Binding that has
\* one pair: a State bound without a role.
OneTriggerOnOneState(schema) ==
    /\ Cardinality(DOMAIN schema.mActions) = 1
    /\ \A a \in DOMAIN schema.mActions :
           LET action == schema.mActions[a]
           IN  /\ action.type = "Trigger"
               /\ Len(action.mBindings) = 1
               /\ Len(action.mBindings[1].mBindables) = 1
               /\ action.mBindings[1].mBindables[1].second.kind = "State"
               /\ action.mBindings[1].mBindables[1].first = << >>

\* The schema registered under `name` in `st` holds one action, named like
\* the one of `schema`, a Trigger, with one Binding of one pair, without a
\* role, on the target of the pair of `schema`; `log` holds the calls that
\* made it.
Reproduces(st, log, name, schema) ==
    /\ name \in DOMAIN st.mActionSchemas
    /\ LET loaded == st.heap[st.mActionSchemas[name].id]
           a == CHOOSE a \in DOMAIN schema.mActions : TRUE
           pair == schema.mActions[a].mBindings[1].mBindables[1]
           binds == { k \in DOMAIN log : log[k].ev = "Binding::bind" }
       IN  /\ loaded.mName = schema.mName
           /\ DOMAIN loaded.mActions = { a }
           /\ loaded.mActions[a].mName = schema.mActions[a].mName
           /\ loaded.mActions[a].type = "Trigger"
           /\ Len(loaded.mActions[a].mBindings) = 1
           /\ Len(loaded.mActions[a].mBindings[1].mBindables) = 1
           /\ RoleOf(loaded.mActions[a].mBindings[1].mBindables[1]) = << >>
           /\ TargetName(st, loaded.mActions[a].mBindings[1].mBindables[1])
                  = TargetName(SchemaState, pair)
           /\ Cardinality(binds) = 1
           /\ \A k \in binds :
                  /\ log[k].obj.name = TargetName(SchemaState, pair)
                  /\ log[k].obj.role = << >>

\* C16: round trip.  Of a schema holding one Trigger action with one
\* Binding that has a single bind, without a role, to a State, the document
\* save writes, loaded into a System just constructed (with no device, or
\* initialized on the same devices), yields a schema of the same name with
\* one action of the same name and type Trigger, holding one Binding with
\* one bind, without a role, to the same target name.
C16_RoundTrip ==
    (call.op = "saveActionSchemaToXMLFile") =>
        \A name \in DOMAIN mActionSchemas :
            OneTriggerOnOneState(heap[mActionSchemas[name].id]) =>
                \A devices \in { EmptyMap, mDevices } :
                    \E loaded \in { loadActionSchemaFromXMLFile(devices, FreshSystem,
                                                                file) } :
                        /\ loaded.raised = "none"
                        /\ loaded.ret = 0
                        /\ Reproduces(loaded.st, loaded.log, name,
                                      heap[mActionSchemas[name].id])

\* Such a schema has been saved.
C16_Witness ==
    /\ call.op = "saveActionSchemaToXMLFile"
    /\ << "A" >> \in DOMAIN mActionSchemas
    /\ OneTriggerOnOneState(heap[mActionSchemas[<< "A" >>].id])
    /\ file # NoFile

\* The nodes of the saved document: of the k-th schema in the order of the
\* registry, of its j-th action, of the action's b-th Binding, of the
\* Binding's p-th pair.
SavedSchemaNode(k) == file.doc[first_node(file.doc, "schemas")].children[k]
SavedBindingNode(k, j, b) == SavedSchemaNode(k).children[j].children[b]
SavedBindNode(k, j, b, p) == SavedBindingNode(k, j, b).children[p]

\* C17: in the saved document, for every pair of every Binding, the bind
\* node has a `role` attribute exactly when the role is not empty, and its
\* text is the name of the bound Bindable, or "None" for a reserved slot;
\* the binding node has an `optional` attribute exactly when the Binding is
\* optional.
C17_SavedBindAndBindingNodes ==
    (call.op = "saveActionSchemaToXMLFile") =>
        LET schemas == SortedKeys(DOMAIN mActionSchemas)
        IN  \A k \in DOMAIN schemas :
                LET actions == ActionsOf(schemas[k])
                    names == SortedKeys(DOMAIN actions)
                IN  \A j \in DOMAIN names :
                        \A b \in DOMAIN actions[names[j]].mBindings :
                            LET binding == actions[names[j]].mBindings[b]
                            IN  /\ (first_attribute(SavedBindingNode(k, j, b),
                                                    "optional") # Null)
                                       <=> binding.mOptional
                                /\ \A p \in DOMAIN binding.mBindables :
                                       /\ (first_attribute(SavedBindNode(k, j, b, p),
                                                           "role") # Null)
                                              <=> (RoleOf(binding.mBindables[p]) # << >>)
                                       /\ SavedBindNode(k, j, b, p).value
                                              = TargetName(SchemaState,
                                                           binding.mBindables[p])

\* The parts of C17 that hold: the text of every bind node and the
\* `optional` attribute of every binding node.
SavedTextAndOptional ==
    (call.op = "saveActionSchemaToXMLFile") =>
        LET schemas == SortedKeys(DOMAIN mActionSchemas)
        IN  \A k \in DOMAIN schemas :
                LET actions == ActionsOf(schemas[k])
                    names == SortedKeys(DOMAIN actions)
                IN  \A j \in DOMAIN names :
                        \A b \in DOMAIN actions[names[j]].mBindings :
                            LET binding == actions[names[j]].mBindings[b]
                            IN  /\ (first_attribute(SavedBindingNode(k, j, b),
                                                    "optional") # Null)
                                       <=> binding.mOptional
                                /\ \A p \in DOMAIN binding.mBindables :
                                       SavedBindNode(k, j, b, p).value
                                           = TargetName(SchemaState,
                                                        binding.mBindables[p])

\* --------------------------------------------- claims: default reference

\* C21: after every sequence of createActionSchema, destroyActionSchema,
\* setDefaultActionSchema(name), getDefaultActionSchemaAutoCreate and load
\* calls, failed calls included, the default reference is null or points to
\* a schema that is registered and has not been destroyed.
C21_DefaultNeverDangles ==
    \/ mDefaultActionSchema = Null
    \/ /\ \E name \in DOMAIN mActionSchemas :
              mActionSchemas[name] = mDefaultActionSchema
       /\ mDefaultActionSchema.id \in DOMAIN heap

\* A load has failed in a System that has a default schema and in which a
\* schema has been destroyed.
C21_Witness ==
    /\ call.op = "loadActionSchemaFromXMLFile"
    /\ call.raised = "E_Duplicate"
    /\ mDefaultActionSchema # Null
    /\ nextId > Cardinality(DOMAIN mActionSchemas)

\* ------------------------------------------------------ claims: node tags

\* The children of `node` tagged `tag`.
Tagged(node, tag) ==
    LET Is(n) == n.tag = tag
    IN  SelectSeq(node.children, Is)

\* The bind nodes of an action node: its direct ones and the ones of its
\* binding children.
BindCount(actionNode) ==
    LET bindings == Tagged(actionNode, "binding")
        RECURSIVE Sum(_)
        Sum(k) == IF k = 0 THEN 0
                  ELSE Len(Tagged(bindings[k], "bind")) + Sum(k - 1)
    IN  Len(Tagged(actionNode, "bind")) + Sum(Len(bindings))

\* The names of the actions the schema registered under `name` held before
\* the step.
ActionsBefore(name) ==
    IF name \in DOMAIN mActionSchemas THEN DOMAIN ActionsOf(name) ELSE {}

\* C22: load dispatches on the tags of the nodes.  A schema is created or
\* reused only for a node tagged `schema`, an action is created only for a
\* node tagged `action`, a Binding only for a node tagged `binding`: a loaded
\* action has as many Bindings as its node has `binding` children, whatever
\* other children follow them, and every bind node is bound exactly once.
C22_LoadDispatchesOnTags ==
    [][ (LoadsDocument /\ call'.raised = "none") =>
          LET doc == call'.arg.content.doc
              schemas == Range(SchemaNodes(doc))
          IN  /\ \A name \in DOMAIN mActionSchemas' \ DOMAIN mActionSchemas :
                     \E s \in schemas : Named(s) /\ NameOf(s) = name
              /\ \A s \in schemas :
                     Named(s) =>
                         \A a \in DOMAIN ActionsAfter(NameOf(s))
                                      \ ActionsBefore(NameOf(s)) :
                             \E n \in Range(ActionNodes(s)) :
                                 /\ ~Malformed(n)
                                 /\ NameOf(n) = a
                                 /\ Len(ActionsAfter(NameOf(s))[a].mBindings)
                                        = Len(Tagged(n, "binding"))
                                 /\ Cardinality({ k \in DOMAIN trace' :
                                        /\ trace'[k].ev = "Binding::bind"
                                        /\ trace'[k].obj.action.name = a })
                                        = BindCount(n)
      ]_vars

\* The part of C22 that holds: in a document whose nodes are schema, action,
\* binding and bind nodes where load expects them, every action gets one
\* Binding for each binding child and every bind node is bound once.
WellTaggedDocumentIsLoaded ==
    [][ (LoadsDocument /\ call'.raised = "none") =>
          LET doc == call'.arg.content.doc
              root == doc[first_node(doc, "schemas")]
          IN  (/\ first_node(doc, "schemas") # 0
               /\ \A s \in Range(root.children) :
                      /\ s.tag = "schema"
                      /\ Named(s)
                      /\ \A n \in Range(s.children) :
                             /\ n.tag = "action"
                             /\ ~Malformed(n)
                             /\ \A b \in Range(n.children) : b.tag = "binding") =>
                  \A s \in Range(root.children) :
                      \A n \in Range(s.children) :
                          NameOf(n) \notin ActionsBefore(NameOf(s)) =>
                              /\ NameOf(n) \in DOMAIN ActionsAfter(NameOf(s))
                              /\ Len(ActionsAfter(NameOf(s))[NameOf(n)].mBindings)
                                     = Len(n.children)
                              /\ Cardinality({ k \in DOMAIN trace' :
                                     /\ trace'[k].ev = "Binding::bind"
                                     /\ trace'[k].obj.action.name = NameOf(n) })
                                     = BindCount(n)
      ]_vars

====
